---- MODULE Spec2Model ----
(***************************************************************************)
(* The gym timetable store of ai-gym-timetable-extractor.                   *)
(*                                                                          *)
(* The repository holds two implementations of the store, both called      *)
(* GymScheduleDatabase:                                                     *)
(*   - the in-memory one of GymScheduleExtractor.py, a Python dict keyed   *)
(*     by (date, timeslot, activity);                                       *)
(*   - the SQLite one of src/ai_gym_timetable_extractor/database.py, a     *)
(*     table gym_classes with UNIQUE(date, timeslot, activity).            *)
(* A behaviour exercises one of them (impl), through its write operations  *)
(* and its queries.  Python str values that the code compares, orders or   *)
(* pattern-matches are sequences of character codes; datetimes are ticks   *)
(* of a clock.                                                             *)
(*                                                                          *)
(* Five specifications:                                                     *)
(*   Spec        the calls of the two stores that return;                  *)
(*   SpecFaults  the SQLite store with the calls that raise (invalid       *)
(*               files, errors in the middle of a load) and close();      *)
(*   SpecAgg     GymScheduleAggregator.aggregate_json_files over a         *)
(*               directory of files, with GymScheduleParser.parse.         *)
(*   SpecSingleton  the SQLite store as a singleton: close(),              *)
(*               reset_instance() and new calls of the constructor;       *)
(*   SpecCli     cli.main: extraction, aggregation, load of the store.     *)
(***************************************************************************)
EXTENDS Integers, Sequences, FiniteSets, TLC

VARIABLES impl,      \* "mem": GymScheduleExtractor.py, "sql": database.py
          classes,   \* mem: self.classes, a dict in insertion order
          rows,      \* sql: table gym_classes as self.conn sees it, in rowid order
          committed, \* sql: table gym_classes as committed to the database file
          conn,      \* sql: "open", or "closed" once close() set self.conn = None
          clock,     \* datetime.now()
          writes,    \* records handed to the store so far
          last,      \* the last call: its name, argument, the store before it,
                     \* what it returned or the exception it raised
          files,     \* the directory the aggregator reads: file name -> content
          agg,       \* the outcome of aggregate_json_files
          initialized, \* sql: GymScheduleDatabase._initialized, the singleton is made
          main       \* cli.main: the step it is at, the exception it ended in,
                     \* the aggregated schedule it saved

vars == <<impl, classes, rows, committed, conn, clock, writes, last, files, agg,
          initialized, main>>

\* ------------------------------------------------------------------ bounds
MaxBatch == 2
MaxWrites == 3
MaxClock == 2

\* ----------------------------------------------------------------- strings
\* str values are sequences of character codes (ASCII).
RECURSIVE StrLess(_, _)
\* a < b as Python str / SQLite BINARY collation compare: lexicographic.
StrLess(a, b) ==
    IF b = <<>> THEN FALSE
    ELSE IF a = <<>> THEN TRUE
    ELSE IF Head(a) # Head(b) THEN Head(a) < Head(b)
    ELSE StrLess(Tail(a), Tail(b))

\* "2024-01-15", "2024-01-16": the common prefix "2024-01-" is left out.
Date15 == <<49, 53>>
Date16 == <<49, 54>>
\* "10:00-11:00", "14:00-15:00": the hour of the start.
Slot10 == <<49, 48>>
Slot14 == <<49, 52>>
\* "Yo(ga)", "Pi(lates)"
Yoga == <<89, 111>>
Pilates == <<80, 105>>
\* "Mon(day)", "Tue(sday)"
Monday == <<77, 111, 110>>
Tuesday == <<84, 117, 101>>

\* --------------------------------------------------------------- GymClass
\* Optional[datetime]: None.
NoneT == -1
\* A keyword argument / JSON member that is not given.
Absent == -2
\* A JSON value that is no datetime ("modified_at": "yesterday").
Malformed == -3
\* GymClass(**entry): the pydantic model; modified_at defaults to datetime.now().
GymClass(entry, now) ==
    [entry EXCEPT !.modified_at = IF @ = Absent THEN now ELSE @]

\* GymClass keyword arguments / the members of a JSON "classes" entry.
Entry(date, day, slot, act, venue, type, vac, mod) ==
    [date |-> date, day_of_week |-> day, timeslot |-> slot, activity |-> act,
     venue |-> venue, class_type |-> type, vacancy |-> vac, modified_at |-> mod]

\* The inputs.  Yoga on the 15th at 10:00 comes in three extractions: the first
\* one, one that differs from it in every other field and carries a timestamp
\* older than the clock (0), and one that differs in vacancy only and carries
\* "modified_at": null.  The other three are the classes of another timeslot,
\* another date (read with a vacancy of -1) and another activity.
Entries ==
    { Entry(Date15, Monday,  Slot10, Yoga,    "Studio A", "Group",    5, Absent),
      Entry(Date15, Tuesday, Slot10, Yoga,    "Studio B", "Personal", 2, 0),
      Entry(Date15, Monday,  Slot10, Yoga,    "Studio A", "Group",    2, NoneT),
      Entry(Date15, Monday,  Slot14, Yoga,    "Studio A", "Group",    3, Absent),
      Entry(Date16, Tuesday, Slot10, Yoga,    "Studio B", "Group",   -1, 0),
      Entry(Date15, Monday,  Slot10, Pilates, "Studio B", "Personal", 0, NoneT) }

\* Batches: sequences of at most MaxBatch entries.
Batches == UNION { [1..n -> Entries] : n \in 0..MaxBatch }

\* JSON entries that are no GymClass: one without "vacancy", one whose
\* "modified_at" is no datetime.
BadEntries ==
    { [date |-> Date15, day_of_week |-> Monday, timeslot |-> Slot14,
       activity |-> Pilates, venue |-> "Studio A", class_type |-> "Group",
       modified_at |-> Absent],
      Entry(Date16, Tuesday, Slot14, Pilates, "Studio B", "Group", 4, Malformed) }

\* The "classes" of a JSON file that may be invalid: sequences of at most
\* MaxBatch entries, over such entries and three of the sample entries (two of
\* one identity and one of another).
JsonEntries == { e \in Entries : e.vacancy \in {5, 2, 3} } \cup BadEntries
JsonBatches == UNION { [1..n -> JsonEntries] : n \in 0..MaxBatch }

\* ------------------------------------------------- the in-memory store
\* GymScheduleDatabase._get_key
get_key(g) == <<g.date, g.timeslot, g.activity>>

\* key in self.classes
DictHas(d, key) == \E i \in 1..Len(d) : d[i].key = key

\* A variant that never finds the key: the entry is always added.
DictSetItemAppend(d, key, value) == Append(d, [key |-> key, value |-> value])

\* self.classes[key] = value: a present key keeps its position, a new key is last.
DictSetItem(d, key, value) ==
    IF DictHas(d, key)
    THEN [i \in 1..Len(d) |->
            IF d[i].key = key THEN [key |-> key, value |-> value] ELSE d[i]]
    ELSE Append(d, [key |-> key, value |-> value])

\* A variant that tests the key after the assignment.
add_or_update_late_test(d, g, now) ==
    LET key == get_key(g)
        stored == [g EXCEPT !.modified_at = now]
        after == DictSetItem(d, key, stored)
    IN  [classes |-> after, ret |-> DictHas(after, key)]

\* GymScheduleDatabase.add_or_update: the store after it and what it returns.
add_or_update(d, g, now) ==
    LET key == get_key(g)
        is_update == DictHas(d, key)
        stored == [g EXCEPT !.modified_at = now]
    IN  [classes |-> DictSetItem(d, key, stored), ret |-> is_update]

RECURSIVE batch_loop(_, _, _, _)
\* The for loop of add_or_update_batch.
batch_loop(d, gs, stats, now) ==
    IF gs = <<>> THEN [classes |-> d, ret |-> stats]
    ELSE LET r == add_or_update(d, Head(gs), now)
         IN  batch_loop(r.classes, Tail(gs),
                        IF r.ret THEN [stats EXCEPT !.updated = @ + 1]
                                 ELSE [stats EXCEPT !.added = @ + 1],
                        now)

\* [gs[n], ..., gs[1]]
Reverse(gs) == [i \in 1..Len(gs) |-> gs[Len(gs) + 1 - i]]

\* A variant that applies the batch from its end.
add_or_update_batch_reversed(d, gs, now) ==
    batch_loop(d, Reverse(gs), [added |-> 0, updated |-> 0], now)

\* A variant that counts against the store as it was before the batch.
add_or_update_batch_snapshot(d, gs, now) ==
    LET r == batch_loop(d, gs, [added |-> 0, updated |-> 0], now)
        fresh == { i \in 1..Len(gs) : ~DictHas(d, get_key(gs[i])) }
    IN  [classes |-> r.classes,
         ret |-> [added |-> Cardinality(fresh),
                  updated |-> Len(gs) - Cardinality(fresh)]]

\* GymScheduleDatabase.add_or_update_batch
add_or_update_batch(d, gs, now) ==
    batch_loop(d, gs, [added |-> 0, updated |-> 0], now)

\* GymScheduleDatabase.get_all: list(self.classes.values())
get_all(d) == [i \in 1..Len(d) |-> d[i].value]

\* GymScheduleDatabase.get_by_date
get_by_date(d, date) == SelectSeq(get_all(d), LAMBDA c : c.date = date)

\* ---------------------------------------------------- the SQLite store
\* datetime.isoformat(): the text of a timestamp, two decimal digits here.
isoformat(t) == <<48 + (t \div 10), 48 + (t % 10)>>

\* A variant that reads the digits in the other order.
fromisoformat_swapped(s) == (s[2] - 48) * 10 + (s[1] - 48)

\* datetime.fromisoformat()
fromisoformat(s) == (s[1] - 48) * 10 + (s[2] - 48)

\* A variant that is UNIQUE(date, timeslot): the activity is not looked at.
UniqueConflictNoActivity(r, s) == r.date = s.date /\ r.timeslot = s.timeslot

\* UNIQUE(date, timeslot, activity): two rows conflict.
UniqueConflict(r, s) ==
    r.date = s.date /\ r.timeslot = s.timeslot /\ r.activity = s.activity

\* A variant that is a plain INSERT: no row is replaced.
InsertAppend(tbl, row) == Append(tbl, row)

\* A variant that updates vacancy and modified_at of a conflicting row only.
InsertOrReplaceKeepVenue(tbl, row) ==
    LET old == SelectSeq(tbl, LAMBDA r : UniqueConflict(r, row))
        new == IF old = <<>> THEN row
               ELSE [row EXCEPT !.venue = old[1].venue,
                                !.class_type = old[1].class_type,
                                !.day_of_week = old[1].day_of_week]
    IN  Append(SelectSeq(tbl, LAMBDA r : ~UniqueConflict(r, row)), new)

\* INSERT OR REPLACE INTO gym_classes: the conflicting rows are deleted, the new
\* row gets the next rowid.
InsertOrReplace(tbl, row) ==
    Append(SelectSeq(tbl, LAMBDA r : ~UniqueConflict(r, row)), row)

\* The VALUES tuple of load_from_json for one class.
RowOf(g, now) ==
    [g EXCEPT !.modified_at =
        IF g.modified_at # NoneT THEN isoformat(g.modified_at) ELSE isoformat(now)]

RECURSIVE load_loop(_, _, _, _)
\* The for loop of load_from_json.
load_loop(tbl, gs, records_loaded, now) ==
    IF gs = <<>> THEN [rows |-> tbl, ret |-> records_loaded]
    ELSE load_loop(InsertOrReplace(tbl, RowOf(Head(gs), now)), Tail(gs),
                   records_loaded + 1, now)

\* GymSchedule(**data): every entry becomes a GymClass.
GymSchedule(data, now) == [i \in 1..Len(data) |-> GymClass(data[i], now)]

\* GymScheduleDatabase.load_from_json, the file holding {"classes": data}, when
\* nothing raises: the table after the loop and the count returned.
load_from_json(tbl, data, now) == load_loop(tbl, GymSchedule(data, now), 0, now)

\* A JSON "classes" entry that pydantic accepts as a GymClass: the required
\* members are there and modified_at, when given, is a datetime.
RequiredFields ==
    {"date", "day_of_week", "timeslot", "activity", "venue", "class_type", "vacancy"}
Valid(e) == RequiredFields \subseteq DOMAIN e /\ e.modified_at # Malformed

\* The first entry of data that is not valid, 0 when all are.
FirstInvalid(data) ==
    IF \A i \in 1..Len(data) : Valid(data[i]) THEN 0
    ELSE CHOOSE i \in 1..Len(data) :
            ~Valid(data[i]) /\ \A j \in 1..(i - 1) : Valid(data[j])

\* A variant that validates each entry when the loop comes to it.
load_from_json_outcome_lazy(tbl, data, now, open, fail_at) ==
    IF FirstInvalid(data) # 0
    THEN [rows |-> IF open
                   THEN load_from_json(tbl, SubSeq(data, 1, FirstInvalid(data) - 1), now).rows
                   ELSE tbl,
          ret |-> 0, err |-> "ValidationError", commit |-> FALSE]
    ELSE IF ~open
    THEN [rows |-> tbl, ret |-> 0, err |-> "AttributeError", commit |-> FALSE]
    ELSE [rows |-> load_from_json(tbl, data, now).rows,
          ret |-> Len(data), err |-> "none", commit |-> TRUE]

\* GymScheduleDatabase.load_from_json, whole: GymSchedule(**data) raises a
\* ValidationError before anything is written; on a closed database
\* self.cursor (self.conn for an empty file) is None and the call raises an
\* AttributeError; the execute of entry fail_at (none when 0) raises an
\* sqlite3 error, after the entries before it were executed and with no
\* rollback; else the loop runs and the transaction is committed.
load_from_json_outcome(tbl, data, now, open, fail_at) ==
    IF FirstInvalid(data) # 0
    THEN [rows |-> tbl, ret |-> 0, err |-> "ValidationError", commit |-> FALSE]
    ELSE IF ~open
    THEN [rows |-> tbl, ret |-> 0, err |-> "AttributeError", commit |-> FALSE]
    ELSE IF fail_at > 0
    THEN [rows |-> load_from_json(tbl, SubSeq(data, 1, fail_at - 1), now).rows,
          ret |-> 0, err |-> "ExecuteError", commit |-> FALSE]
    ELSE LET r == load_from_json(tbl, data, now)
         IN  [rows |-> r.rows, ret |-> r.ret, err |-> "none", commit |-> TRUE]

\* A variant of a closed cursor that raises nothing.
cursor_error_silent(open) == "none"

\* self.cursor.execute(sql, params) in query: self.cursor is None after close().
cursor_error(open) == IF open THEN "none" ELSE "AttributeError"

\* sqlite3.Row -> GymClass in query_as_models: modified_at parsed back.
query_as_models(rs) ==
    [i \in 1..Len(rs) |-> [rs[i] EXCEPT !.modified_at = fromisoformat(@)]]

RECURSIVE RowLess(_, _, _)
\* r sorts before s under ORDER BY cols (TEXT columns, BINARY collation).
RowLess(r, s, cols) ==
    IF cols = <<>> THEN FALSE
    ELSE IF r[Head(cols)] # s[Head(cols)]
         THEN StrLess(r[Head(cols)], s[Head(cols)])
         ELSE RowLess(r, s, Tail(cols))

RECURSIVE SortInsert(_, _, _)
\* r put into a sorted sequence, after the rows that do not sort after it.
SortInsert(sorted, r, cols) ==
    IF sorted = <<>> THEN <<r>>
    ELSE IF RowLess(r, Head(sorted), cols) THEN <<r>> \o sorted
    ELSE <<Head(sorted)>> \o SortInsert(Tail(sorted), r, cols)

RECURSIVE OrderByAcc(_, _, _)
OrderByAcc(rs, acc, cols) ==
    IF rs = <<>> THEN acc
    ELSE OrderByAcc(Tail(rs), SortInsert(acc, Head(rs), cols), cols)

\* ORDER BY cols: the rows, scanned in rowid order, sorted by the columns.
OrderBy(rs, cols) == OrderByAcc(rs, <<>>, cols)

\* sqlite3's LIKE folds the case of ASCII letters only.
LikeFold(c) == IF c >= 97 /\ c <= 122 THEN c - 32 ELSE c

RECURSIVE Like(_, _)
\* text LIKE pattern: % is any run of characters, _ is any one character.
Like(pattern, text) ==
    IF pattern = <<>> THEN text = <<>>
    ELSE IF Head(pattern) = 37
         THEN Like(Tail(pattern), text)
              \/ (text # <<>> /\ Like(pattern, Tail(text)))
    ELSE IF text = <<>> THEN FALSE
    ELSE IF Head(pattern) = 95 THEN Like(Tail(pattern), Tail(text))
    ELSE LikeFold(Head(pattern)) = LikeFold(Head(text))
         /\ Like(Tail(pattern), Tail(text))

\* The orders in which a SELECT may read the table: by rowid (a table scan) or
\* along the index of UNIQUE(date, timeslot, activity).  SQL leaves the order of
\* the rows that tie under ORDER BY to the plan.
ScanOrders(tbl) == { tbl, OrderBy(tbl, <<"date", "timeslot", "activity">>) }

\* GymScheduleDatabase.get_all_classes
get_all_classes(tbl) == query_as_models(OrderBy(tbl, <<"date", "timeslot">>))

\* GymScheduleDatabase.get_classes_by_date
get_classes_by_date(tbl, date) ==
    query_as_models(
        OrderBy(SelectSeq(tbl, LAMBDA r : r.date = date), <<"timeslot">>))

\* GymScheduleDatabase.get_classes_by_activity
get_classes_by_activity(tbl, activity) ==
    query_as_models(
        OrderBy(SelectSeq(tbl, LAMBDA r : Like(<<37>> \o activity \o <<37>>, r.activity)),
                <<"date", "timeslot">>))

\* A variant with vacancy > ?.
get_classes_with_vacancy_strict(tbl, min_vacancy) ==
    query_as_models(
        OrderBy(SelectSeq(tbl, LAMBDA r : r.vacancy > min_vacancy),
                <<"date", "timeslot">>))

\* GymScheduleDatabase.get_classes_by_day_of_week
get_classes_by_day_of_week(tbl, day) ==
    query_as_models(
        OrderBy(SelectSeq(tbl, LAMBDA r : Like(<<37>> \o day \o <<37>>, r.day_of_week)),
                <<"timeslot">>))

\* GymScheduleDatabase.get_classes_with_vacancy
get_classes_with_vacancy(tbl, min_vacancy) ==
    query_as_models(
        OrderBy(SelectSeq(tbl, LAMBDA r : r.vacancy >= min_vacancy),
                <<"date", "timeslot">>))

\* ------------------------------------------------------------ arguments
\* Dates asked for: the two stored ones, a prefix of both ("1"), one never stored.
DateArgs == { Date15, Date16, <<49>>, <<49, 55>> }
\* Activities asked for: "yo", "P", "oY", "_", "%".
ActivityArgs == { <<121, 111>>, <<80>>, <<111, 89>>, <<95>>, <<37>> }
\* Days asked for: "mon", "ue".
DayArgs == { <<109, 111, 110>>, <<117, 101>> }
\* min_vacancy
VacancyArgs == { 1, 2, 3 }

\* ------------------------------------------------------------- actions
\* What last holds of a call.
Call(op, arg, pre, ret, err) ==
    [op |-> op, arg |-> arg, pre |-> pre, ret |-> ret, err |-> err, at |-> clock]

\* aggregate_json_files before it is called: all_classes = [], no file listed.
NoAgg == [status |-> "none", todo |-> <<>>, classes |-> <<>>]

\* cli.main is not run in the behaviours of the store.
NoMain == [pc |-> "none", err |-> "none", saved |-> <<>>]

\* No directory is there in the behaviours of the store.
NoDirectory == [exists |-> FALSE, entries |-> {}]

Init ==
    /\ impl \in {"mem", "sql"}
    /\ classes = <<>>
    /\ rows = <<>>
    /\ committed = <<>>
    /\ conn = "open"
    /\ clock = 1
    /\ writes = 0
    /\ last = [op |-> "init", arg |-> <<>>, pre |-> <<>>, ret |-> <<>>,
               err |-> "none", at |-> 1]
    /\ files = NoDirectory
    /\ agg = NoAgg
    /\ initialized = TRUE
    /\ main = NoMain

\* Time passes between two calls.
Tick ==
    /\ clock < MaxClock
    /\ clock' = clock + 1
    /\ UNCHANGED <<impl, classes, rows, committed, conn, writes, last, files,
                   agg, initialized, main>>

\* database.add_or_update(GymClass(**e))
AddOrUpdate(e) ==
    /\ impl = "mem"
    /\ writes < MaxWrites
    /\ LET r == add_or_update(classes, GymClass(e, clock), clock)
       IN  /\ classes' = r.classes
           /\ last' = Call("add_or_update", e, classes, r.ret, "none")
    /\ writes' = writes + 1
    /\ UNCHANGED <<impl, rows, committed, conn, clock, files, agg, initialized, main>>

\* database.add_or_update_batch([GymClass(**e) for e in es])
AddOrUpdateBatch(es) ==
    /\ impl = "mem"
    /\ writes + Len(es) <= MaxWrites
    /\ LET r == add_or_update_batch(classes, GymSchedule(es, clock), clock)
       IN  /\ classes' = r.classes
           /\ last' = Call("add_or_update_batch", es, classes, r.ret, "none")
    /\ writes' = writes + Len(es)
    /\ UNCHANGED <<impl, rows, committed, conn, clock, files, agg, initialized, main>>

\* database.get_all()
GetAll ==
    /\ impl = "mem"
    /\ last' = Call("get_all", <<>>, classes, get_all(classes), "none")
    /\ UNCHANGED <<impl, classes, rows, committed, conn, clock, writes, files,
                   agg, initialized, main>>

\* database.get_by_date(date)
GetByDate(date) ==
    /\ impl = "mem"
    /\ last' = Call("get_by_date", date, classes, get_by_date(classes, date), "none")
    /\ UNCHANGED <<impl, classes, rows, committed, conn, clock, writes, files,
                   agg, initialized, main>>

\* db.load_from_json(path), the file holding {"classes": es}; the execute of
\* entry fail_at raises when fail_at > 0.
LoadFromJson(es, fail_at) ==
    /\ impl = "sql"
    /\ writes + Len(es) <= MaxWrites
    /\ LET r == load_from_json_outcome(rows, es, clock, conn = "open", fail_at)
       IN  /\ rows' = r.rows
           /\ committed' = IF r.commit THEN r.rows ELSE committed
           /\ last' = Call("load_from_json", es, rows, r.ret, r.err)
    /\ writes' = writes + Len(es)
    /\ UNCHANGED <<impl, classes, conn, clock, files, agg, initialized, main>>

\* A variant of a query that stamps the rows of the table with the time of
\* the read.
QueryStamping(op, arg, result) ==
    /\ last' = Call(op, arg, rows, result, "none")
    /\ rows' = [i \in 1..Len(rows) |-> [rows[i] EXCEPT !.modified_at = isoformat(clock)]]
    /\ UNCHANGED <<impl, classes, committed, conn, clock, writes, files, agg,
                   initialized, main>>

\* A query of the SQLite store: what the SELECT gives, or the exception of a
\* closed cursor.
Query(op, arg, result) ==
    LET err == cursor_error(conn = "open")
    IN  /\ last' = Call(op, arg, rows, IF err = "none" THEN result ELSE <<>>, err)
        /\ UNCHANGED <<impl, classes, rows, committed, conn, clock, writes,
                       files, agg, initialized, main>>

\* db.get_all_classes()
GetAllClasses ==
    /\ impl = "sql"
    /\ \E scan \in ScanOrders(rows) :
         Query("get_all_classes", <<>>, get_all_classes(scan))

\* db.get_classes_by_date(date)
GetClassesByDate(date) ==
    /\ impl = "sql"
    /\ \E scan \in ScanOrders(rows) :
         Query("get_classes_by_date", date, get_classes_by_date(scan, date))

\* db.get_classes_by_activity(activity)
GetClassesByActivity(activity) ==
    /\ impl = "sql"
    /\ \E scan \in ScanOrders(rows) :
         Query("get_classes_by_activity", activity,
               get_classes_by_activity(scan, activity))

\* db.get_classes_by_day_of_week(day)
GetClassesByDayOfWeek(day) ==
    /\ impl = "sql"
    /\ \E scan \in ScanOrders(rows) :
         Query("get_classes_by_day_of_week", day,
               get_classes_by_day_of_week(scan, day))

\* db.get_classes_with_vacancy(min_vacancy)
GetClassesWithVacancy(min_vacancy) ==
    /\ impl = "sql"
    /\ \E scan \in ScanOrders(rows) :
         Query("get_classes_with_vacancy", min_vacancy,
               get_classes_with_vacancy(scan, min_vacancy))

\* db.close(): the connection is closed, which rolls back what it had not
\* committed, and self.conn and self.cursor are None from then on; on a closed
\* database close() does nothing.
Close ==
    /\ impl = "sql"
    /\ conn' = "closed"
    /\ rows' = IF conn = "open" THEN committed ELSE rows
    /\ last' = Call("close", <<>>, rows, <<>>, "none")
    /\ UNCHANGED <<impl, classes, committed, clock, writes, files, agg,
                   initialized, main>>

\* The calls of the two stores that return.
Next ==
    \/ Tick
    \/ \E e \in Entries : AddOrUpdate(e)
    \/ \E es \in Batches : AddOrUpdateBatch(es)
    \/ GetAll
    \/ \E d \in DateArgs : GetByDate(d)
    \/ \E es \in Batches : LoadFromJson(es, 0)
    \/ GetAllClasses
    \/ \E d \in DateArgs : GetClassesByDate(d)
    \/ \E a \in ActivityArgs : GetClassesByActivity(a)
    \/ \E d \in DayArgs : GetClassesByDayOfWeek(d)
    \/ \E n \in VacancyArgs : GetClassesWithVacancy(n)

Spec == Init /\ [][Next]_vars

\* The SQLite store with the calls that raise: files that are no schedule,
\* sqlite errors in the middle of a load, and calls after close().
InitFaults == Init /\ impl = "sql"

NextFaults ==
    \/ Tick
    \/ \E es \in JsonBatches : \E k \in 0..Len(es) : LoadFromJson(es, k)
    \/ GetAllClasses
    \/ \E d \in DateArgs : GetClassesByDate(d)
    \/ \E a \in ActivityArgs : GetClassesByActivity(a)
    \/ \E d \in DayArgs : GetClassesByDayOfWeek(d)
    \/ \E n \in VacancyArgs : GetClassesWithVacancy(n)
    \/ Close

SpecFaults == InitFaults /\ [][NextFaults]_vars

\* ------------------------------------------------------------ the singleton
\* GymScheduleDatabase() and get_database(): __new__ makes the instance when
\* there is none, and __init__ connects to the database file, which holds
\* what was committed, only when the class is not initialized; else the call
\* returns the instance there is, as it is.  last.pre holds the connection
\* and the table of before the call.
Construct ==
    /\ impl = "sql"
    /\ initialized' = TRUE
    /\ conn' = IF initialized THEN conn ELSE "open"
    /\ rows' = IF initialized THEN rows ELSE committed
    /\ last' = Call("GymScheduleDatabase", <<>>, [conn |-> conn, rows |-> rows],
                    IF initialized THEN "same" ELSE "new", "none")
    /\ UNCHANGED <<impl, classes, committed, clock, writes, files, agg, main>>

\* GymScheduleDatabase.reset_instance(): the instance, when it has a
\* connection, is closed, and the class forgets it.
ResetInstance ==
    /\ impl = "sql"
    /\ initialized' = FALSE
    /\ conn' = "closed"
    /\ rows' = IF conn = "open" THEN committed ELSE rows
    /\ last' = Call("reset_instance", <<>>, [conn |-> conn, rows |-> rows], <<>>, "none")
    /\ UNCHANGED <<impl, classes, committed, clock, writes, files, agg, main>>

\* The SQLite store through its life: loads, some of which raise, queries,
\* close(), reset_instance() and new calls of the constructor.
NextSingleton ==
    \/ Tick
    \/ \E es \in JsonBatches : \E k \in 0..Len(es) : LoadFromJson(es, k)
    \/ GetAllClasses
    \/ Close
    \/ Construct
    \/ ResetInstance

SpecSingleton == InitFaults /\ [][NextSingleton]_vars

\* ---------------------------------------------------------- the aggregator
\* File names: "a.json", "B.json", "c.txt".
DotJson == <<46, 106, 115, 111, 110>>
FileNames == { <<97>> \o DotJson, <<66>> \o DotJson, <<99, 46, 116, 120, 116>> }

\* What a file holds: a JSON object with "classes", a JSON object without,
\* or text that is no JSON.
JsonFile(es) == [kind |-> "classes", classes |-> es]
OtherJson == [kind |-> "other", classes |-> <<>>]
NotJson == [kind |-> "garbage", classes |-> <<>>]

\* The contents the files are drawn from: Yoga on the 15th at 10:00; the same
\* class twice, as two extractions read it, and another class; no class;
\* a class without vacancy; and the two that hold no classes at all.
FileContents ==
    { JsonFile(<<Entry(Date15, Monday, Slot10, Yoga, "Studio A", "Group", 5, Absent)>>),
      JsonFile(<<Entry(Date15, Monday, Slot10, Yoga, "Studio A", "Group", 2, NoneT),
                 Entry(Date15, Monday, Slot10, Yoga, "Studio A", "Group", 5, Absent),
                 Entry(Date15, Monday, Slot14, Yoga, "Studio A", "Group", 3, Absent)>>),
      JsonFile(<<>>),
      JsonFile(<<CHOOSE e \in BadEntries : "vacancy" \notin DOMAIN e>>),
      OtherJson,
      NotJson }

\* The directories: some of the file names, each with a content.
Directories ==
    UNION { { { [name |-> n, content |-> f[n]] : n \in ns } : f \in [ns -> FileContents] }
            : ns \in SUBSET FileNames }

\* filename.endswith('.json')
EndsWith(name, suffix) ==
    /\ Len(name) >= Len(suffix)
    /\ SubSeq(name, Len(name) - Len(suffix) + 1, Len(name)) = suffix

\* A variant of sorted that lists the names in descending order.
RECURSIVE sorted_descending(_)
sorted_descending(names) ==
    IF names = {} THEN <<>>
    ELSE LET first == CHOOSE n \in names : \A m \in names : ~StrLess(n, m)
         IN  <<first>> \o sorted_descending(names \ {first})

\* sorted(os.listdir(directory)): the names in ascending order of their code points.
RECURSIVE sorted(_)
sorted(names) ==
    IF names = {} THEN <<>>
    ELSE LET first == CHOOSE n \in names : \A m \in names : ~StrLess(m, n)
         IN  <<first>> \o sorted(names \ {first})

\* GymScheduleParser.parse: the classes of the file, the empty list for JSON
\* without "classes", and None when json.load or GymSchedule(**data) raised:
\* the handler prints and the method ends without a return.
parse(content, now) ==
    IF content.kind = "garbage" THEN [none |-> TRUE, classes |-> <<>>]
    ELSE IF content.kind = "other" THEN [none |-> FALSE, classes |-> <<>>]
    ELSE IF FirstInvalid(content.classes) # 0 THEN [none |-> TRUE, classes |-> <<>>]
    ELSE [none |-> FALSE, classes |-> GymSchedule(content.classes, now)]

\* The content of the file called name.
ContentOf(name) == (CHOOSE f \in files.entries : f.name = name).content

\* The directory before aggregate_json_files is called.
InitAgg ==
    /\ impl = "sql"
    /\ classes = <<>>
    /\ rows = <<>>
    /\ committed = <<>>
    /\ conn = "open"
    /\ clock = 1
    /\ writes = 0
    /\ last = [op |-> "init", arg |-> <<>>, pre |-> <<>>, ret |-> <<>>,
               err |-> "none", at |-> 1]
    /\ \/ files = NoDirectory
       \/ \E dir \in Directories : files = [exists |-> TRUE, entries |-> dir]
    /\ agg = NoAgg
    /\ initialized = TRUE
    /\ main = NoMain

\* aggregate_json_files, up to the loop: a directory that is not there gives
\* the empty list.
AggregateStart ==
    /\ agg.status = "none"
    /\ agg' = IF files.exists
              THEN [status |-> "loop",
                    todo |-> sorted({ f.name : f \in files.entries }),
                    classes |-> <<>>]
              ELSE [status |-> "returned", todo |-> <<>>, classes |-> <<>>]
    /\ UNCHANGED <<impl, classes, rows, committed, conn, clock, writes, last,
                   files, initialized, main>>

\* One turn of the loop, a file that is no .json: continue.
AggregateSkip ==
    /\ agg.status = "loop" /\ agg.todo # <<>>
    /\ ~EndsWith(Head(agg.todo), DotJson)
    /\ agg' = [agg EXCEPT !.todo = Tail(@)]
    /\ UNCHANGED <<impl, classes, rows, committed, conn, clock, writes, last,
                   files, initialized, main>>

\* One turn of the loop, a .json file: all_classes.extend(self.parser.parse(..)),
\* which raises a TypeError when parse returned None.
AggregateFile ==
    /\ agg.status = "loop" /\ agg.todo # <<>>
    /\ EndsWith(Head(agg.todo), DotJson)
    /\ LET parsed == parse(ContentOf(Head(agg.todo)), clock)
       IN  agg' = IF parsed.none
                  THEN [agg EXCEPT !.status = "TypeError"]
                  ELSE [agg EXCEPT !.todo = Tail(@),
                                   !.classes = @ \o parsed.classes]
    /\ UNCHANGED <<impl, classes, rows, committed, conn, clock, writes, last,
                   files, initialized, main>>

\* return all_classes
AggregateReturn ==
    /\ agg.status = "loop" /\ agg.todo = <<>>
    /\ agg' = [agg EXCEPT !.status = "returned"]
    /\ UNCHANGED <<impl, classes, rows, committed, conn, clock, writes, last,
                   files, initialized, main>>

NextAgg ==
    \/ AggregateStart
    \/ AggregateSkip
    \/ AggregateFile
    \/ AggregateReturn

SpecAgg == InitAgg /\ [][NextAgg]_vars

\* -------------------------------------------------------------- cli.main
\* The images of data/img, by the stem of their names: "a.png", "B.jpg".
ImageStems == { <<97>>, <<66>> }

\* The methods class GymScheduleDatabase defines.
Methods ==
    {"load_from_json", "query", "query_as_dict", "query_as_models", "execute",
     "get_all_classes", "get_classes_by_date", "get_classes_by_activity",
     "get_classes_by_day_of_week", "get_classes_with_vacancy", "close",
     "reset_instance"}

\* db.name(...): the lookup of an attribute the class does not define raises.
method_error(name) == IF name \in Methods THEN "none" ELSE "AttributeError"

\* main in a fresh process: no instance of the store yet, an empty database
\* file, and data/json as earlier runs left it.
InitCli ==
    /\ impl = "sql"
    /\ classes = <<>>
    /\ rows = <<>>
    /\ committed = <<>>
    /\ conn = "closed"
    /\ clock = 1
    /\ writes = 0
    /\ last = [op |-> "init", arg |-> <<>>, pre |-> <<>>, ret |-> <<>>,
               err |-> "none", at |-> 1]
    /\ \/ files = NoDirectory
       \/ \E dir \in Directories : files = [exists |-> TRUE, entries |-> dir]
    /\ agg = NoAgg
    /\ initialized = FALSE
    /\ main = [pc |-> "extract", err |-> "none", saved |-> <<>>]

\* Step 1, batch_image_info_extraction: for each image the text the OCR engine
\* returned is saved as data/json/<stem>.json, over a file of that name.
MainExtract ==
    /\ main.pc = "extract"
    /\ \E stems \in SUBSET ImageStems : \E text \in [stems -> FileContents] :
         files' = [exists |-> files.exists \/ stems # {},
                   entries |->
                      { f \in files.entries :
                          \A st \in stems : f.name # st \o DotJson }
                      \cup { [name |-> st \o DotJson, content |-> text[st]] :
                             st \in stems }]
    /\ main' = [main EXCEPT !.pc = "aggregate"]
    /\ UNCHANGED <<impl, classes, rows, committed, conn, clock, writes, last, agg,
                   initialized>>

\* Step 1 when GeminiOcrEngine() finds no API key: ValueError.
MainExtractRaises ==
    /\ main.pc = "extract"
    /\ main' = [main EXCEPT !.pc = "raised", !.err = "ValueError"]
    /\ UNCHANGED <<impl, classes, rows, committed, conn, clock, writes, last, files,
                   agg, initialized>>

\* Step 2, aggregate_results: aggregate_json_files(data/json), one step of it.
MainAggregate ==
    /\ main.pc = "aggregate"
    /\ \/ AggregateStart
       \/ AggregateSkip
       \/ AggregateFile
       \/ AggregateReturn

\* Step 2 when aggregate_json_files raised: main ends in its exception.
MainAggregateRaises ==
    /\ main.pc = "aggregate"
    /\ agg.status = "TypeError"
    /\ main' = [main EXCEPT !.pc = "raised", !.err = "TypeError"]
    /\ UNCHANGED <<impl, classes, rows, committed, conn, clock, writes, last, files,
                   agg, initialized>>

\* Step 2, save_aggregated_json(all_classes, data/aggregated/aggregated_schedule.json)
MainSave ==
    /\ main.pc = "aggregate"
    /\ agg.status = "returned"
    /\ main' = [main EXCEPT !.pc = "load", !.saved = agg.classes]
    /\ UNCHANGED <<impl, classes, rows, committed, conn, clock, writes, last, files,
                   agg, initialized>>

\* Step 3, load_aggregated_results_to_db: get_database() makes the instance
\* and connects; db.load_delta_from_json_file is looked up on it, which raises
\* for a name that is no method, before anything is called.
MainLoad ==
    /\ main.pc = "load"
    /\ initialized' = TRUE
    /\ conn' = IF initialized THEN conn ELSE "open"
    /\ rows' = IF initialized THEN rows ELSE committed
    /\ LET err == method_error("load_delta_from_json_file")
       IN  main' = [main EXCEPT !.pc = IF err = "none" THEN "done" ELSE "raised",
                                !.err = err]
    /\ UNCHANGED <<impl, classes, committed, clock, writes, last, files, agg>>

NextCli ==
    \/ MainExtract
    \/ MainExtractRaises
    \/ MainAggregate
    \/ MainAggregateRaises
    \/ MainSave
    \/ MainLoad

SpecCli == InitCli /\ [][NextCli]_vars

\* ============================================================== claims
\* The vocabulary of the claims.

\* The identity key of a record.
Identity(g) == <<g.date, g.timeslot, g.activity>>

\* The records a store holds, in the store's own order.
RecordsOf(store) ==
    IF impl = "mem" THEN [i \in 1..Len(store) |-> store[i].value] ELSE store

\* The records held now, and those held before the last call.
Stored == RecordsOf(IF impl = "mem" THEN classes ELSE rows)
StoredBefore == RecordsOf(last.pre)

IdentitiesOf(recs) == { Identity(recs[i]) : i \in 1..Len(recs) }

\* The stored records with a given identity.
StoredWith(key) == SelectSeq(Stored, LAMBDA g : Identity(g) = key)

\* The last call was op and it returned: it raised nothing.
Returned(op) == last.op = op /\ last.err = "none"

\* The last call wrote to the store.
LastIsSingleUpsert == Returned("add_or_update")
LastIsBatch ==
    last.op \in {"add_or_update_batch", "load_from_json"} /\ last.err = "none"

\* The informational fields of a stored record g are those of the input e.
SameInformation(g, e) ==
    /\ g.venue = e.venue
    /\ g.class_type = e.class_type
    /\ g.day_of_week = e.day_of_week
    /\ g.vacancy = e.vacancy

\* C1: after any sequence of add_or_update, add_or_update_batch and
\* load_from_json calls from an empty store, no two stored records share all of
\* date, timeslot and activity (and the dict holds no key twice).
C1_OneRecordPerIdentity ==
    /\ \A i, j \in 1..Len(Stored) :
         i # j => Identity(Stored[i]) # Identity(Stored[j])
    /\ \A i, j \in 1..Len(classes) : i # j => classes[i].key # classes[j].key

\* C1 witness: more records were written than are stored, and two are stored.
C1_Witness == impl = "mem" /\ Len(classes) = 2 /\ writes = 3

\* C2: an upsert of a record whose identity is already stored leaves exactly one
\* stored record of that identity, and its venue, class_type, day_of_week and
\* vacancy are the incoming record's: nothing of the old record is kept.  In a
\* batch this is said of the last record of each identity.
C2_UpsertReplacesWholeRecord ==
    /\ LastIsSingleUpsert /\ Identity(last.arg) \in IdentitiesOf(StoredBefore)
         => /\ Len(StoredWith(Identity(last.arg))) = 1
            /\ SameInformation(StoredWith(Identity(last.arg))[1], last.arg)
    /\ LastIsBatch =>
         \A i \in 1..Len(last.arg) :
            LET e == last.arg[i]
                present == \/ Identity(e) \in IdentitiesOf(StoredBefore)
                           \/ \E j \in 1..(i - 1) : Identity(last.arg[j]) = Identity(e)
                final == \A j \in (i + 1)..Len(last.arg) :
                            Identity(last.arg[j]) # Identity(e)
            IN  present /\ final
                  => /\ Len(StoredWith(Identity(e))) = 1
                     /\ SameInformation(StoredWith(Identity(e))[1], e)

\* C2 witness: a load replaced a stored record by one that differs from it in
\* venue, class_type, day_of_week and vacancy.
C2_Witness ==
    /\ impl = "sql" /\ Returned("load_from_json") /\ Len(last.arg) = 1
    /\ \E i \in 1..Len(StoredBefore) :
          /\ Identity(StoredBefore[i]) = Identity(last.arg[1])
          /\ StoredBefore[i].venue # last.arg[1].venue
          /\ StoredBefore[i].class_type # last.arg[1].class_type
          /\ StoredBefore[i].day_of_week # last.arg[1].day_of_week
          /\ StoredBefore[i].vacancy # last.arg[1].vacancy
    /\ Len(rows) = 2

\* C3: add_or_update returns False exactly when the record's identity was not
\* stored just before the call, and True exactly when it was; the store gains
\* one record in the first case and keeps its size in the second.
C3_UpsertReportsInsertedOrUpdated ==
    LastIsSingleUpsert =>
        LET present == Identity(last.arg) \in IdentitiesOf(StoredBefore)
        IN  /\ last.ret = present
            /\ ~present => Len(Stored) = Len(StoredBefore) + 1
            /\ present => Len(Stored) = Len(StoredBefore)

\* C3 witness: a call that returned True on a store that held two records, after
\* one that returned False.
C3_Witness ==
    LastIsSingleUpsert /\ last.ret = TRUE /\ Len(classes) = 2 /\ writes = 3

\* The modified_at of a stored record, as a timestamp.
ModifiedAt(g) ==
    IF impl = "mem" THEN g.modified_at ELSE fromisoformat(g.modified_at)

\* Every record of the last write is stored with the clock of that write.
WrittenAtClock ==
    /\ LastIsSingleUpsert =>
         \A i \in 1..Len(Stored) :
            Identity(Stored[i]) = Identity(last.arg) => ModifiedAt(Stored[i]) = last.at
    /\ LastIsBatch =>
         \A i \in 1..Len(Stored), j \in 1..Len(last.arg) :
            Identity(Stored[i]) = Identity(last.arg[j])
               => ModifiedAt(Stored[i]) = last.at

\* C4: the modified_at of every stored record is the store's clock at the write
\* that stored it, whatever modified_at the incoming record carried
\* (add_or_update, add_or_update_batch and load_from_json alike).
C4_ModifiedAtSetByStore == WrittenAtClock

\* The same, of the in-memory store alone, where it holds.
InMemoryModifiedAtSetByStore == impl = "mem" => WrittenAtClock

RECURSIVE UpsertsUpTo(_, _, _, _)
\* add_or_update called on es[1], ..., es[n], one call each.
UpsertsUpTo(d, es, n, now) ==
    IF n = 0 THEN d
    ELSE add_or_update(UpsertsUpTo(d, es, n - 1, now), GymClass(es[n], now), now).classes

RECURSIVE LoadsUpTo(_, _, _, _)
\* load_from_json called on n files that hold es[1], ..., es[n], one entry each.
LoadsUpTo(tbl, es, n, now) ==
    IF n = 0 THEN tbl
    ELSE load_from_json(LoadsUpTo(tbl, es, n - 1, now), <<es[n]>>, now).rows

\* Of every identity in the last batch, the last record is the one stored.
LastOfBatchWins ==
    \A i \in 1..Len(last.arg) :
        (\A j \in (i + 1)..Len(last.arg) : Identity(last.arg[j]) # Identity(last.arg[i]))
           => /\ Len(StoredWith(Identity(last.arg[i]))) = 1
              /\ SameInformation(StoredWith(Identity(last.arg[i]))[1], last.arg[i])

\* C5: a batch write leaves the store as the upserts of its records, one at a
\* time in input order, leave it (the clock held still); of several records of one
\* identity in the batch the last is the one stored.
C5_BatchIsUpsertsInOrder ==
    /\ Returned("add_or_update_batch")
         => /\ classes = UpsertsUpTo(last.pre, last.arg, Len(last.arg), last.at)
            /\ LastOfBatchWins
    /\ Returned("load_from_json")
         => /\ rows = LoadsUpTo(last.pre, last.arg, Len(last.arg), last.at)
            /\ LastOfBatchWins

\* C5 witness: the batch [A(vacancy=5), A(vacancy=2)] was written and vacancy=2
\* is stored.
C5_Witness ==
    /\ Returned("add_or_update_batch") /\ Len(last.arg) = 2
    /\ Identity(last.arg[1]) = Identity(last.arg[2])
    /\ last.arg[1].vacancy = 5 /\ last.arg[2].vacancy = 2
    /\ Len(classes) = 2
    /\ \E i \in 1..Len(classes) :
          /\ classes[i].key = Identity(last.arg[2])
          /\ classes[i].value.vacancy = 2

\* The records of the last batch whose identity was not stored when they were
\* applied: not stored before the call and not earlier in the batch.
InsertedOfBatch ==
    { i \in 1..Len(last.arg) :
        /\ Identity(last.arg[i]) \notin IdentitiesOf(StoredBefore)
        /\ \A j \in 1..(i - 1) : Identity(last.arg[j]) # Identity(last.arg[i]) }

SameRecord(g, r) ==
    /\ g.date = r.date /\ g.day_of_week = r.day_of_week
    /\ g.timeslot = r.timeslot /\ g.activity = r.activity
    /\ g.venue = r.venue /\ g.class_type = r.class_type
    /\ g.vacancy = r.vacancy
    /\ g.modified_at = ModifiedAt(r)

\* ret holds exactly the stored records at the positions wanted, each once.
ReturnsExactly(ret, wanted) ==
    /\ \A i \in 1..Len(ret) : \E j \in wanted : SameRecord(ret[i], Stored[j])
    /\ \A j \in wanted :
          Cardinality({ i \in 1..Len(ret) : SameRecord(ret[i], Stored[j]) }) = 1
    /\ Len(ret) = Cardinality(wanted)

\* ret is in ascending order of (date, timeslot).
OrderedByDateTimeslot(ret) ==
    \A i, j \in 1..Len(ret) :
        i < j => /\ ~StrLess(ret[j].date, ret[i].date)
                 /\ ret[j].date = ret[i].date
                      => ~StrLess(ret[j].timeslot, ret[i].timeslot)

\* What C7 says of a query for all records.
AllReturnedInOrder ==
    /\ ReturnsExactly(last.ret, 1..Len(Stored))
    /\ OrderedByDateTimeslot(last.ret)

\* C7: get_all() (get_all of the in-memory store, get_all_classes of the SQLite
\* store) returns every stored record exactly once, in ascending order of
\* (date, timeslot), whatever the order of the upserts.
C7_GetAllOrdered ==
    last.op \in {"get_all", "get_all_classes"} /\ last.err = "none"
        => AllReturnedInOrder

\* The same, of get_all_classes alone, where it holds.
GetAllClassesOrdered == Returned("get_all_classes") => AllReturnedInOrder

\* C8: get_classes_with_vacancy(n) returns exactly the stored rows with
\* vacancy >= n, on the vacancy last written, in ascending order of
\* (date, timeslot).
C8_MinVacancyExact ==
    Returned("get_classes_with_vacancy") =>
        /\ ReturnsExactly(last.ret, { j \in 1..Len(Stored) : Stored[j].vacancy >= last.arg })
        /\ OrderedByDateTimeslot(last.ret)

\* C8 witness: Yoga on the 15th at 10:00 was written with vacancy 5 and then
\* with vacancy 2, nothing else is stored, and get_classes_with_vacancy(1)
\* returns it (get_classes_with_vacancy(3) returns nothing: C8_WitnessEmpty).
C8_Witness ==
    /\ Returned("get_classes_with_vacancy") /\ last.arg = 1
    /\ writes >= 2 /\ Len(rows) = 1 /\ rows[1].vacancy = 2
    /\ Len(last.ret) = 1 /\ last.ret[1].vacancy = 2

C8_WitnessEmpty ==
    /\ Returned("get_classes_with_vacancy") /\ last.arg = 3
    /\ writes >= 2 /\ Len(rows) = 1 /\ rows[1].vacancy = 2
    /\ last.ret = <<>>

\* What C9 says of a query by date.
DateReturnedInOrder ==
    /\ ReturnsExactly(last.ret, { j \in 1..Len(Stored) : Stored[j].date = last.arg })
    /\ OrderedByDateTimeslot(last.ret)

\* C9: get_by_date(d) (get_by_date of the in-memory store, get_classes_by_date
\* of the SQLite store) returns exactly the stored records whose date is d, in
\* ascending order of (date, timeslot), and the empty sequence when there is none.
C9_GetByDateExactOrdered ==
    last.op \in {"get_by_date", "get_classes_by_date"} /\ last.err = "none"
        => DateReturnedInOrder

\* The same, of get_classes_by_date alone, where it holds.
GetClassesByDateExactOrdered ==
    Returned("get_classes_by_date") => DateReturnedInOrder

\* The in-memory get_by_date matches the date exactly; only its order is open.
GetByDateExact ==
    Returned("get_by_date") => ReturnsExactly(last.ret, { j \in 1..Len(Stored) : Stored[j].date = last.arg })

\* A letter without its case: the case-insensitive policy of the claim.
Lower(c) == IF c >= 65 /\ c <= 90 THEN c + 32 ELSE c

\* text contains s as a substring, case ignored.
ContainsIgnoringCase(text, s) ==
    \E k \in 0..(Len(text) - Len(s)) :
        \A i \in 1..Len(s) : Lower(text[k + i]) = Lower(s[i])

\* What C10 says of a query by activity.
ActivityReturnedInOrder ==
    /\ ReturnsExactly(last.ret,
          { j \in 1..Len(Stored) : ContainsIgnoringCase(Stored[j].activity, last.arg) })
    /\ OrderedByDateTimeslot(last.ret)

\* C10: for every argument s, get_classes_by_activity(s) returns exactly the
\* stored rows whose activity contains s as a substring, case ignored, in
\* ascending order of (date, timeslot).
C10_GetByActivitySubstring ==
    Returned("get_classes_by_activity") => ActivityReturnedInOrder

\* The same, of the arguments that hold neither % nor _, where it holds.
GetByActivitySubstringNoWildcard ==
    /\ Returned("get_classes_by_activity")
    /\ \A i \in 1..Len(last.arg) : last.arg[i] \notin {37, 95}
    => ActivityReturnedInOrder

\* ------------------------------------------------------ the calls that raise
\* The last call was op and it raised err.
Raised(op, err) == last.op = op /\ last.err = err

\* C11: load_from_json of a file with an entry that lacks a required field or
\* holds a value of a wrong type raises a ValidationError, and the table is
\* what it was before the call: no entry of the file, valid or not, is written.
C11_InvalidBatchRejected ==
    last.op = "load_from_json" /\ FirstInvalid(last.arg) # 0
        => /\ last.err = "ValidationError"
           /\ rows = last.pre

\* C11 witness: into a table of one row, a file was loaded whose first entry is
\* a valid class not yet stored and whose second entry has no vacancy.
C11_Witness ==
    /\ Raised("load_from_json", "ValidationError")
    /\ conn = "open"
    /\ Len(last.arg) = 2
    /\ Valid(last.arg[1])
    /\ Identity(last.arg[1]) \notin IdentitiesOf(StoredBefore)
    /\ "vacancy" \notin DOMAIN last.arg[2]
    /\ Len(last.pre) = 1 /\ rows = last.pre

\* C11, second witness: the same with an entry whose modified_at is no datetime.
C11_WitnessWrongType ==
    /\ Raised("load_from_json", "ValidationError")
    /\ Len(last.arg) = 2
    /\ Valid(last.arg[1])
    /\ last.arg[2].modified_at = Malformed
    /\ Len(last.pre) = 1 /\ rows = last.pre

\* ------------------------------------------------------------ the aggregator
\* The .json files of the directory, in ascending order of their names.
SourceNames == { f.name : f \in { g \in files.entries : EndsWith(g.name, DotJson) } }
Sources ==
    CHOOSE s \in [1..Cardinality(SourceNames) -> SourceNames] :
        \A i, j \in 1..Cardinality(SourceNames) : i < j => StrLess(s[i], s[j])

\* A source parses: it is JSON and what it holds under "classes" are classes.
Parses(content) ==
    content.kind # "garbage" /\ FirstInvalid(content.classes) = 0

\* The aggregation came to its end and returned agg.classes.
AggregateReturned == agg.status = "returned" /\ files.exists

\* The record g is the entry e of a source: its identity and its information.
RecordOfEntry(g, e) == Identity(g) = Identity(e) /\ SameInformation(g, e)

\* The records of the first k sources that parse, counted.
RECURSIVE CountUpTo(_)
CountUpTo(k) ==
    IF k = 0 THEN 0
    ELSE CountUpTo(k - 1)
           + (IF Parses(ContentOf(Sources[k]))
              THEN Len(ContentOf(Sources[k]).classes) ELSE 0)

\* agg.classes holds, for each source that parses and in the order of the
\* sources, the entries of the source in their order, and nothing else.
IsConcatenationOfParsed ==
    /\ Len(agg.classes) = CountUpTo(Len(Sources))
    /\ \A k \in 1..Len(Sources) :
          Parses(ContentOf(Sources[k])) =>
             \A i \in 1..Len(ContentOf(Sources[k]).classes) :
                RecordOfEntry(agg.classes[CountUpTo(k - 1) + i],
                              ContentOf(Sources[k]).classes[i])

\* C12: a source that fails to parse is skipped and the pass completes: the
\* aggregation never ends in an exception, and it returns the concatenation of
\* the records of the other sources.
C12_BadSourceSkipped ==
    /\ agg.status \notin {"none", "loop"} => agg.status = "returned"
    /\ AggregateReturned => IsConcatenationOfParsed

\* The aggregation does end in an exception: at the first source that fails
\* to parse.
AggregateRaisesOnBadSource ==
    agg.status = "TypeError"
        => /\ agg.todo # <<>>
           /\ ~Parses(ContentOf(Head(agg.todo)))

\* The aggregation returns only when every source parses.
AggregateReturnsWhenAllParse ==
    AggregateReturned
        => \A k \in 1..Len(Sources) : Parses(ContentOf(Sources[k]))

C14_ClosedIsTerminal ==
    [][conn = "closed" =>
          /\ conn' = "closed"
          /\ rows' = rows
          /\ committed' = committed
          /\ last'.op # "close" => last'.err # "none"]_vars

\* C14 witness: the database holds a row and was closed, and get_all_classes
\* raised.
C14_Witness ==
    /\ conn = "closed" /\ Len(rows) >= 1
    /\ Raised("get_all_classes", "AttributeError")

\* C14, second witness: on the closed database a load of a valid file raised.
C14_WitnessLoad ==
    /\ conn = "closed" /\ Len(rows) >= 1
    /\ Raised("load_from_json", "AttributeError")
    /\ Len(last.arg) >= 1

\* ----------------------------------------------------- relations between writes
\* The seven fields of a record that are not modified_at.
Info(g) ==
    [date |-> g.date, day_of_week |-> g.day_of_week, timeslot |-> g.timeslot,
     activity |-> g.activity, venue |-> g.venue, class_type |-> g.class_type,
     vacancy |-> g.vacancy]

InfoOf(recs) == { Info(recs[i]) : i \in 1..Len(recs) }

\* The entry e was stored, with all its fields but modified_at, before the last call.
StoredBeforeAs(e) ==
    \E i \in 1..Len(StoredBefore) :
        Identity(StoredBefore[i]) = Identity(e) /\ SameInformation(StoredBefore[i], e)

\* The store holds what it held before the last call, modified_at left aside,
\* and one record of the identity of e.
SameContentsOneOf(e) ==
    /\ Len(StoredWith(Identity(e))) = 1
    /\ Len(Stored) = Len(StoredBefore)
    /\ InfoOf(Stored) = InfoOf(StoredBefore)

\* C15: the upsert of a record that is stored already with the same fields
\* (modified_at aside) leaves one record of its identity and every field but
\* modified_at of every record as it was, and reports an update: add_or_update
\* returns True, add_or_update_batch counts it as updated.
C15_ReupsertIdempotent ==
    /\ LastIsSingleUpsert /\ StoredBeforeAs(last.arg)
         => SameContentsOneOf(last.arg) /\ last.ret = TRUE
    /\ Returned("add_or_update_batch") /\ Len(last.arg) = 1 /\ StoredBeforeAs(last.arg[1])
         => SameContentsOneOf(last.arg[1]) /\ last.ret = [added |-> 0, updated |-> 1]
    /\ Returned("load_from_json") /\ Len(last.arg) = 1 /\ StoredBeforeAs(last.arg[1])
         => SameContentsOneOf(last.arg[1])

\* C15 witness: two records are stored, one of them was upserted again as it is
\* at a later time, and add_or_update returned True.
C15_Witness ==
    /\ LastIsSingleUpsert /\ StoredBeforeAs(last.arg)
    /\ Len(classes) = 2 /\ last.ret = TRUE
    /\ \E i \in 1..Len(StoredBefore) :
          /\ Identity(StoredBefore[i]) = Identity(last.arg)
          /\ StoredBefore[i].modified_at < last.at

\* C15, second witness: the same of a load into the SQLite store.
C15_WitnessLoad ==
    /\ Returned("load_from_json") /\ Len(last.arg) = 1 /\ StoredBeforeAs(last.arg[1])
    /\ Len(rows) = 2 /\ Identity(rows[1]) # Identity(last.arg[1])

\* What C16 says of the last write: no stored record has a modified_at before
\* the one its identity was stored with when the call began.
ModifiedAtNotDecreased ==
    \A i \in 1..Len(Stored), j \in 1..Len(StoredBefore) :
        Identity(Stored[i]) = Identity(StoredBefore[j])
            => ModifiedAt(Stored[i]) >= ModifiedAt(StoredBefore[j])

\* C16: across the upserts of one identity, the clock not decreasing, the
\* stored modified_at never decreases: after each write it is at least what
\* was stored before the write.
C16_ModifiedAtNeverDecreases ==
    LastIsSingleUpsert \/ LastIsBatch => ModifiedAtNotDecreased

\* The same, of the in-memory store alone, where it holds.
InMemoryModifiedAtNeverDecreases ==
    impl = "mem" /\ (LastIsSingleUpsert \/ LastIsBatch) => ModifiedAtNotDecreased

\* The timestamp load_from_json writes for the entry e at time now: the
\* entry's own, the time of the load when it has none.
WrittenTimestamp(e, now) ==
    IF e.modified_at \in {Absent, NoneT} THEN now ELSE e.modified_at

\* The entry i of the last batch is the last of its identity in the batch.
FinalOfBatch(i) ==
    \A j \in (i + 1)..Len(last.arg) : Identity(last.arg[j]) # Identity(last.arg[i])

\* What get_all_classes reads back from the table.
ReadBack == get_all_classes(rows)

\* C17: each record loaded by load_from_json is read back by get_all_classes
\* (query_as_models) with its seven fields as they were loaded and with the
\* modified_at that was written: the row holds it as ISO text, which parses
\* back to the timestamp.
C17_RoundTrip ==
    Returned("load_from_json") =>
        \A i \in 1..Len(last.arg) :
            FinalOfBatch(i) =>
                /\ \E k \in 1..Len(ReadBack) :
                      /\ Info(ReadBack[k]) = Info(last.arg[i])
                      /\ ReadBack[k].modified_at = WrittenTimestamp(last.arg[i], last.at)
                /\ \E k \in 1..Len(rows) :
                      /\ Info(rows[k]) = Info(last.arg[i])
                      /\ rows[k].modified_at = isoformat(WrittenTimestamp(last.arg[i], last.at))

\* C17 witness: at time 2 a file of two classes was loaded, one with a
\* modified_at of its own and one without, and both are read back.
C17_Witness ==
    /\ Returned("load_from_json") /\ Len(last.arg) = 2 /\ last.at = 2
    /\ last.arg[1].modified_at = 0 /\ last.arg[2].modified_at = Absent
    /\ Len(ReadBack) = 2
    /\ { ReadBack[k].modified_at : k \in 1..2 } = {0, 2}

\* C18: no stored record has a vacancy below 0.
C18_VacancyNonNegative ==
    \A i \in 1..Len(Stored) : Stored[i].vacancy >= 0

\* The queries of the two stores.
QueryOps ==
    {"get_all", "get_by_date", "get_all_classes", "get_classes_by_date",
     "get_classes_by_activity", "get_classes_by_day_of_week",
     "get_classes_with_vacancy"}

\* C19: the queries are read-only: a step that ends with a query as the last
\* call leaves the dict, the table with every field of every row (modified_at
\* too), the database file and the connection as they were.
C19_QueriesReadOnly ==
    [][last'.op \in QueryOps =>
          /\ classes' = classes
          /\ rows' = rows
          /\ committed' = committed
          /\ conn' = conn]_vars

\* C19 witness: at time 2 get_classes_by_day_of_week returned the two rows
\* written at time 1, and the table is what it was.
C19_Witness ==
    /\ Returned("get_classes_by_day_of_week")
    /\ Len(rows) = 2 /\ Len(last.ret) = 2 /\ rows = last.pre
    /\ last.at = 2
    /\ \A i \in 1..2 : rows[i].modified_at = isoformat(1)

\* C19, second witness: the same of get_by_date of the in-memory store.
C19_WitnessInMemory ==
    /\ Returned("get_by_date")
    /\ Len(classes) = 2 /\ Len(last.ret) = 1 /\ classes = last.pre
    /\ last.at = 2

\* C20: load_from_json is all-or-nothing: when the write of an entry raises
\* after earlier entries of the file were written, none of them is applied:
\* the table the connection reads, and so what a later commit makes durable,
\* is the table of before the call.
C20_BatchAllOrNothing ==
    Raised("load_from_json", "ExecuteError") => rows = last.pre

\* What a load that raises leaves: the entries before the one that raised,
\* written and not committed.
FailedLoadLeavesPrefix ==
    Raised("load_from_json", "ExecuteError") =>
        \E k \in 1..Len(last.arg) :
            rows = LoadsUpTo(last.pre, last.arg, k - 1, last.at)

\* The commit of a load that returns makes durable all the connection has
\* written, the entries a load that raised has left included.
CommitPublishesConnection ==
    Returned("load_from_json") => committed = rows

\* ------------------------------------------------------------ the singleton
\* C21: after close(), a call of GymScheduleDatabase() or get_database()
\* gives an open store over the same database file: its connection is open
\* and it reads what was committed.
C21_NewInstanceReopens ==
    Returned("GymScheduleDatabase") /\ last.pre.conn = "closed"
        => conn = "open" /\ rows = committed

\* The constructor after close() returns the closed instance as it is.
ConstructorKeepsClosedInstance ==
    Returned("GymScheduleDatabase") /\ last.ret = "same"
        => conn = last.pre.conn /\ rows = last.pre.rows

\* After reset_instance() the constructor does give an open store over the
\* database file.
ConstructorAfterResetReopens ==
    Returned("GymScheduleDatabase") /\ last.ret = "new"
        => conn = "open" /\ rows = committed /\ initialized

\* The closed instance was asked for again, with a row in the file, and is
\* still closed.
StillClosedAfterConstructor ==
    /\ Returned("GymScheduleDatabase") /\ last.ret = "same"
    /\ conn = "closed" /\ Len(committed) >= 1

\* -------------------------------------------------------------- cli.main
\* main has ended: it returned or an exception left it.
MainEnded == main.pc \in {"done", "raised"}

\* C22: main runs extraction, aggregation and the load of the store in this
\* order, and when it has ended after an aggregation that returned, it has
\* completed and the identity of every aggregated record is in the store.
C22_PipelineLoadsStore ==
    MainEnded /\ agg.status = "returned"
        => /\ main.pc = "done"
           /\ \A i \in 1..Len(agg.classes) :
                 Identity(agg.classes[i]) \in IdentitiesOf(rows)

\* The steps of main come in the order extraction, aggregation, save, load.
MainStepsInOrder ==
    [][main'.pc # main.pc =>
          <<main.pc, main'.pc>> \in
             { <<"extract", "aggregate">>, <<"extract", "raised">>,
               <<"aggregate", "load">>, <<"aggregate", "raised">>,
               <<"load", "done">>, <<"load", "raised">> }]_vars

\* main never completes, and it leaves the store empty: the step of the load
\* ends in an AttributeError.
MainNeverLoads ==
    /\ main.pc # "done"
    /\ rows = <<>> /\ committed = <<>>
    /\ main.pc = "raised" /\ agg.status = "returned" => main.err = "AttributeError"

\* What main saved is what the aggregation returned.
MainSavesAggregate ==
    main.pc \in {"load", "done"} \/ (main.pc = "raised" /\ agg.status = "returned")
        => main.saved = agg.classes

\* main ended after it had aggregated and saved four records, and none is in
\* the store.
MainEndedWithoutLoad ==
    /\ main.pc = "raised" /\ main.err = "AttributeError"
    /\ Len(main.saved) = 4 /\ conn = "open" /\ rows = <<>>

\* ------------------------------------------------------------- no shrinking
\* The calls of the stores that C23 is about: the upserts and the queries.
UpsertOrQuery ==
    LastIsSingleUpsert \/ LastIsBatch \/ (last.op \in QueryOps /\ last.err = "none")

\* C23: no upsert, batch upsert or query shrinks the store: every identity
\* stored before the call is stored after it, and the number of stored
\* records is not smaller.  (Every call leaves the store of before it in
\* last.pre, and between two calls the store does not change.)
C23_StoreNeverShrinks ==
    UpsertOrQuery =>
        /\ IdentitiesOf(StoredBefore) \subseteq IdentitiesOf(Stored)
        /\ Len(Stored) >= Len(StoredBefore)

\* C23 witness: the table held Yoga and Pilates of one date and timeslot, a
\* load wrote one of them again, and both are still there.
C23_Witness ==
    /\ Returned("load_from_json") /\ Len(last.arg) = 1
    /\ Len(last.pre) = 2 /\ Len(rows) = 2
    /\ Identity(last.arg[1]) \in IdentitiesOf(StoredBefore)
    /\ \A i, j \in 1..2 : rows[i].date = rows[j].date /\ rows[i].timeslot = rows[j].timeslot
    /\ IdentitiesOf(Stored) = IdentitiesOf(StoredBefore)

\* C23, second witness: the same of add_or_update of the in-memory store.
C23_WitnessInMemory ==
    /\ LastIsSingleUpsert /\ last.ret = TRUE
    /\ Len(last.pre) = 2 /\ Len(classes) = 2
    /\ IdentitiesOf(Stored) = IdentitiesOf(StoredBefore)

\* The store does shrink, by close() and reset_instance() alone: they drop
\* the rows that a load that raised had written and not committed.
ShrinksOnlyByRollback ==
    [][Len(rows') < Len(rows) =>
          /\ last'.op \in {"close", "reset_instance"}
          /\ rows' = committed]_vars

====
